---- MODULE Spec2Model ----
(***************************************************************************)
(* Model of the UnionFind node of src/lib.rs.                              *)
(*                                                                         *)
(* A UnionFind<T> is an owned value: `parent` is an Option<Box<..>>, so a  *)
(* node carries its whole parent chain inside itself and `clone` is a deep *)
(* copy.  A node is modelled as the record [value, parent] where parent is *)
(* <<>> for None and <<p>> for Some(box p).                                *)
(*                                                                         *)
(* The caller's local variables are the slots 1..NumSlots.  A slot is      *)
(* unbound, holds a node, or has been moved out of (a by-value receiver    *)
(* consumes its node; the compiler rejects any later use).  `calls` counts *)
(* the calls made so far; a run stops after MaxCalls of them.              *)
(***************************************************************************)
EXTENDS Integers, Sequences, FiniteSets, TLC

\* number of caller variables that can hold a node
NumSlots == 3
\* number of distinct payload values
NumValues == 2
\* number of calls (make_set, find, union) a run of the model makes
MaxCalls == 5

Slots == 1..NumSlots
Values == 1..NumValues

VARIABLES held, made, cls, last, calls

vars == <<held, made, cls, last, calls>>

----------------------------------------------------------------------------
(* The struct and its three functions *)

\* Option::None / Option::Some(box p)
None == <<>>
Some(p) == <<p>>

\* a plausible slip: the payload is dropped and a default stored instead
make_set_default(value) == [value |-> 0, parent |-> None]

\* UnionFind { value: value, parent: None }
make_set(value) == [value |-> value, parent |-> None]

\* a plausible slip: return the direct parent instead of walking to the root
find_oneStep(self) == IF self.parent # None THEN self.parent[1] ELSE self

\* a plausible slip: the "root is its own parent" convention of array-based
\* union-find applied to the canonical node before it is returned
RECURSIVE find_selfParent(_)
find_selfParent(self) ==
    IF self.parent # None THEN find_selfParent(self.parent[1])
    ELSE [self EXCEPT !.parent = Some(self)]

\* match self.parent { Some(p) => p.find(), None => self }
RECURSIVE find(_)
find(self) == IF self.parent # None THEN find(self.parent[1]) ELSE self

\* a plausible slip: the link is made in the opposite direction
union_reversed(self, other) == [self EXCEPT !.parent = Some(other)]

\* a plausible slip: `other` is linked to the receiver's parent, skipping the
\* receiver itself
union_skipSelf(self, other) == [other EXCEPT !.parent = self.parent]

\* a plausible slip: the whole of `other` is overwritten, not only its parent
union_overwrite(self, other) == [value |-> self.value, parent |-> Some(self)]

\* other.parent = Some(box self); the operator yields the new *other
union(self, other) == [other EXCEPT !.parent = Some(self)]

\* a plausible slip: equality that compares the payload only
NodeEq_shallow(a, b) == a.value = b.value

\* #[deriving(PartialEq)]: field by field, Option and Box compare their
\* contents
RECURSIVE NodeEq(_, _)
NodeEq(a, b) ==
    /\ a.value = b.value
    /\ IF a.parent = None THEN b.parent = None
       ELSE b.parent # None /\ NodeEq(a.parent[1], b.parent[1])

\* the nodes met from n by following `parent`, n first
RECURSIVE ParentChain(_)
ParentChain(n) ==
    IF n.parent = None THEN <<n>> ELSE <<n>> \o ParentChain(n.parent[1])

\* the payloads met from n by following `parent`
RECURSIVE ChainValues(_)
ChainValues(n) ==
    IF n.parent = None THEN <<n.value>>
    ELSE <<n.value>> \o ChainValues(n.parent[1])

\* number of nodes on n's parent chain
RECURSIVE Depth(_)
Depth(n) == IF n.parent = None THEN 1 ELSE 1 + Depth(n.parent[1])

----------------------------------------------------------------------------
(* The caller's variables *)

Live(s) == held[s] # <<>>
Node(s) == held[s][1]
HeldNodes == {held[s][1] : s \in {t \in Slots : held[t] # <<>>}}

\* every node that occurs in the caller's variables, nested ones included
ReachableNodes ==
    UNION {{ParentChain(n)[i] : i \in 1..Len(ParentChain(n))} : n \in HeldNodes}

Min(i, j) == IF i <= j THEN i ELSE j

\* the classes of "has been unioned with" after a union of slots a and b
Merge(a, b) ==
    [s \in Slots |->
        IF cls[s] = cls[a] \/ cls[s] = cls[b] THEN Min(cls[a], cls[b])
        ELSE cls[s]]

Call(op, a, b, res) == [op |-> op, a |-> a, b |-> b, res |-> res]

Init ==
    /\ held = [s \in Slots |-> <<>>]
    /\ made = [s \in Slots |-> 0]
    /\ cls = [s \in Slots |-> s]
    /\ last = Call("init", 1, 1, <<>>)
    /\ calls = 0

\* let s = UnionFind::make_set(v);
MakeSet(s, v) ==
    /\ made[s] = 0
    /\ calls < MaxCalls
    /\ calls' = calls + 1
    /\ held' = [held EXCEPT ![s] = <<make_set(v)>>]
    /\ made' = [made EXCEPT ![s] = v]
    /\ last' = Call("make_set", s, s, <<>>)
    /\ UNCHANGED cls

\* a.clone().union(&mut b);
UnionClone(a, b) ==
    /\ Live(a) /\ Live(b)
    /\ calls < MaxCalls
    /\ held' = [held EXCEPT ![b] = <<union(Node(a), Node(b))>>]
    /\ cls' = Merge(a, b)
    /\ calls' = calls + 1
    /\ last' = Call("union_clone", a, b, <<>>)
    /\ UNCHANGED made

\* a.union(&mut b);   a is moved into the call
UnionMove(a, b) ==
    /\ a # b
    /\ Live(a) /\ Live(b)
    /\ calls < MaxCalls
    /\ held' = [held EXCEPT ![b] = <<union(Node(a), Node(b))>>, ![a] = <<>>]
    /\ cls' = Merge(a, b)
    /\ calls' = calls + 1
    /\ last' = Call("union_move", a, b, <<>>)
    /\ UNCHANGED made

\* a.clone().find().union(&mut b);
UnionRoot(a, b) ==
    /\ Live(a) /\ Live(b)
    /\ calls < MaxCalls
    /\ held' = [held EXCEPT ![b] = <<union(find(Node(a)), Node(b))>>]
    /\ cls' = Merge(a, b)
    /\ calls' = calls + 1
    /\ last' = Call("union_root", a, b, <<>>)
    /\ UNCHANGED made

\* a.clone().find()
FindClone(a) ==
    /\ Live(a)
    /\ calls < MaxCalls
    /\ calls' = calls + 1
    /\ last' = Call("find_clone", a, a, <<find(Node(a))>>)
    /\ UNCHANGED <<held, made, cls>>

\* a.find()   a is moved into the call
FindMove(a) ==
    /\ Live(a)
    /\ calls < MaxCalls
    /\ calls' = calls + 1
    /\ held' = [held EXCEPT ![a] = <<>>]
    /\ last' = Call("find_move", a, a, <<find(Node(a))>>)
    /\ UNCHANGED <<made, cls>>

Next ==
    \/ \E s \in Slots, v \in Values : MakeSet(s, v)
    \/ \E a, b \in Slots : UnionClone(a, b)
    \/ \E a, b \in Slots : UnionMove(a, b)
    \/ \E a, b \in Slots : UnionRoot(a, b)
    \/ \E a \in Slots : FindClone(a)
    \/ \E a \in Slots : FindMove(a)

Spec == Init /\ [][Next]_vars

\* the documented calling style: every receiver is a clone, no handle is lost
NextClone ==
    \/ \E s \in Slots, v \in Values : MakeSet(s, v)
    \/ \E a, b \in Slots : UnionClone(a, b)
    \/ \E a \in Slots : FindClone(a)

SpecClone == Init /\ [][NextClone]_vars

----------------------------------------------------------------------------
(* Properties *)

IsUnion(c) == c.op \in {"union_clone", "union_move", "union_root"}
IsFind(c) == c.op \in {"find_clone", "find_move"}

\* C1: after union(a, b), find(b) is what find(a) was before the call; when a
\* was a root, find(b) is a itself: a's value and parent None.
C1_UnionThenFind ==
    [][IsUnion(last') =>
        LET a == held[last'.a][1]
            b == held'[last'.b][1]
        IN  /\ NodeEq(find(b), find(a))
            /\ a.parent = None =>
                 /\ NodeEq(find(b), a)
                 /\ find(b).value = a.value
                 /\ find(b).parent = None]_vars

\* a union whose receiver was not a root has just acted
C1_Witness ==
    /\ last.op \in {"union_clone", "union_move"}
    /\ Live(last.b)
    /\ Depth(Node(last.b)) >= 3

\* C2: with every receiver a clone, two held nodes that have been unioned,
\* directly or transitively, have equal find results.
C2_UnionedFindEqual ==
    \A a, b \in Slots :
        (Live(a) /\ Live(b) /\ cls[a] = cls[b]) =>
            NodeEq(find(Node(a)), find(Node(b)))

\* C3 as stated: two held nodes that were never connected have different
\* find results, whatever the values.
C3_UnconnectedFindDiffer ==
    \A a, c \in Slots :
        (Live(a) /\ Live(c) /\ cls[a] # cls[c]) =>
            ~NodeEq(find(Node(a)), find(Node(c)))

\* no node unioned with a was created with the value of a node unioned with c
ValueDisjoint(a, c) ==
    \A s, t \in Slots :
        (made[s] # 0 /\ made[t] # 0 /\ cls[s] = cls[a] /\ cls[t] = cls[c]) =>
            made[s] # made[t]

\* C3 amended: two held nodes that were never connected have different find
\* results when no node connected to the one was created with the same value
\* as a node connected to the other.
C3_UnconnectedDistinctValuesDiffer ==
    \A a, c \in Slots :
        (Live(a) /\ Live(c) /\ cls[a] # cls[c] /\ ValueDisjoint(a, c)) =>
            ~NodeEq(find(Node(a)), find(Node(c)))

\* a node with a parent and a node never connected to it, values disjoint
C3_Witness ==
    \E a, c \in Slots :
        /\ Live(a) /\ Live(c) /\ cls[a] # cls[c] /\ ValueDisjoint(a, c)
        /\ Depth(Node(a)) >= 2
        /\ IsUnion(last)

\* C4: find(n) is the last node of n's parent chain, it has parent None, and
\* every node on n's chain has the same find result as n.
C4_FindIsChainEnd ==
    /\ \A n \in ReachableNodes :
          LET c == ParentChain(n)
              r == find(n)
          IN  /\ r.parent = None
              /\ r = c[Len(c)]
              /\ \A i \in 1..Len(c) : NodeEq(find(c[i]), r)
    /\ IsFind(last) => last.res[1].parent = None

\* find has just run on a node two links away from its root
C4_Witness ==
    /\ last.op = "find_clone"
    /\ Depth(Node(last.a)) >= 3
    /\ last.res[1] # Node(last.a).parent[1]

\* C5: two nodes are equal exactly when their chains carry the same values
\* node by node; two fresh singletons are equal iff their values are equal.
C5_StructuralEquality ==
    /\ \A a, b \in ReachableNodes :
          NodeEq(a, b) <=> ChainValues(a) = ChainValues(b)
    /\ \A v, w \in Values : NodeEq(make_set(v), make_set(w)) <=> v = w

\* two variables hold equal nodes with parents, a third holds a node with the
\* same value and another chain
C5_Witness ==
    \E s, t, u \in Slots :
        /\ s # t /\ Live(s) /\ Live(t) /\ Live(u)
        /\ Depth(Node(s)) >= 2
        /\ NodeEq(Node(s), Node(t))
        /\ Node(u).value = Node(s).value
        /\ ~NodeEq(Node(u), Node(s))

\* C6: find of a node whose parent is None is that node, unchanged.
C6_FindRootIsSelf ==
    /\ \A n \in ReachableNodes :
          n.parent = None =>
              /\ NodeEq(find(n), n)
              /\ find(n).value = n.value
              /\ find(n).parent = None
    /\ (last.op = "find_clone" /\ Node(last.a).parent = None) =>
          NodeEq(last.res[1], Node(last.a))

\* find has just run on a root while another variable holds a non-root
C6_Witness ==
    /\ last.op = "find_clone"
    /\ Node(last.a).parent = None
    /\ \E s \in Slots : Live(s) /\ Node(s).parent # None

\* C7: make_set(v) yields value v and parent None and changes no other node.
C7_MakeSet ==
    [][last'.op = "make_set" =>
        /\ held'[last'.a] = <<[value |-> made'[last'.a], parent |-> None]>>
        /\ \A s \in Slots \ {last'.a} : held'[s] = held[s]
        /\ \A v \in Values :
              make_set(v).value = v /\ make_set(v).parent = None]_vars

\* make_set has just run while another variable holds a node with a parent
C7_Witness ==
    /\ last.op = "make_set"
    /\ \E s \in Slots \ {last.a} : Live(s) /\ Depth(Node(s)) >= 2

\* the chain of n ends at its only node with parent None and repeats no node
WellFormed(n) ==
    LET c == ParentChain(n)
    IN  /\ Len(c) >= 1
        /\ c[Len(c)].parent = None
        /\ \A i \in 1..(Len(c) - 1) : c[i].parent = Some(c[i + 1])
        /\ Cardinality({i \in 1..Len(c) : c[i].parent = None}) = 1
        /\ \A i, j \in 1..Len(c) : i # j => c[i] # c[j]
        /\ find(n) = c[Len(c)]

\* C8: every held node's parent chain is finite, acyclic and ends at exactly
\* one node with parent None; a union leaves `other` with a chain one node
\* longer than the receiver's.
C8_ChainsWellFormed ==
    [][/\ \A s \in Slots : held'[s] # <<>> => WellFormed(held'[s][1])
       /\ last'.op \in {"union_clone", "union_move"} =>
             Depth(held'[last'.b][1]) = Depth(held[last'.a][1]) + 1
       /\ last'.op = "union_root" =>
             Depth(held'[last'.b][1]) = Depth(find(held[last'.a][1])) + 1
      ]_vars

\* a non-root node has just been unioned with a clone of itself
C8_Witness ==
    /\ last.op = "union_clone"
    /\ last.a = last.b
    /\ Depth(Node(last.b)) >= 3

\* C9: a held node whose parent is Some(p) keeps that parent through every
\* later call.
C9_ParentNeverReassigned ==
    [][\A s \in Slots :
          (held[s] # <<>> /\ held'[s] # <<>> /\ held[s][1].parent # None) =>
              held'[s][1].parent = held[s][1].parent]_vars

\* C10 as stated: a.clone().union(&mut b) keeps b's value and every other
\* held node, a included, so a root a stays a root with find(a).value its own.
C10_UnionFrame ==
    [][last'.op = "union_clone" =>
        LET a == last'.a
            b == last'.b
        IN  /\ held'[b][1].value = held[b][1].value
            /\ \A s \in Slots \ {b} : held'[s] = held[s]
            /\ held'[a] = held[a]
            /\ held[a][1].parent = None =>
                 /\ held'[a][1].parent = None
                 /\ find(held'[a][1]).value = held[a][1].value]_vars

\* C10 amended: b keeps its value, every held node other than b is unchanged,
\* which covers a only when a is not b; a root a other than b stays a root,
\* and find(a).value is a root a's value in either case.
C10_UnionFrameDistinct ==
    [][last'.op = "union_clone" =>
        LET a == last'.a
            b == last'.b
        IN  /\ held'[b][1].value = held[b][1].value
            /\ \A s \in Slots \ {b} : held'[s] = held[s]
            /\ a # b => held'[a] = held[a]
            /\ held[a][1].parent = None =>
                 /\ a # b => held'[a][1].parent = None
                 /\ find(held'[a][1]).value = held[a][1].value]_vars

\* a clone of a root a has just been unioned into another node b while a
\* third variable holds a node
C10_Witness ==
    /\ last.op = "union_clone"
    /\ last.a # last.b
    /\ Node(last.a).parent = None
    /\ Node(last.b).parent = Some(Node(last.a))
    /\ \E s \in Slots \ {last.a, last.b} : Live(s)

====
